---- MODULE Spec2Model ----
(***************************************************************************)
(* Model of dependency_graph.py: the DependencyGraph class (file scanner,  *)
(* include extractor, graph builder, run) and its two path helpers.        *)
(*                                                                         *)
(* Python strings are sequences of one-character strings, so that          *)
(* str.startswith, str.rfind, slicing, os.path.basename, os.path.dirname   *)
(* and os.path.join are computed character by character as CPython does.   *)
(* Indices are 1-based; a failed rfind is 0 (Python: -1).                  *)
(***************************************************************************)
EXTENDS Integers, Sequences, FiniteSets, TLC

(* ------------------------------ str / os.path --------------------------- *)

\* str.rfind(c): the highest index of the character c in s, 0 when absent.
RFind(s, c) ==
    LET hits == {i \in 1..Len(s) : s[i] = c}
    IN  IF hits = {} THEN 0 ELSE CHOOSE i \in hits : \A j \in hits : j <= i

\* str.startswith(prefix)
StartsWith(s, prefix) ==
    /\ Len(prefix) <= Len(s)
    /\ SubSeq(s, 1, Len(prefix)) = prefix

\* os.path.basename(p) (posixpath): p[p.rfind('/') + 1:]
Basename(p) == SubSeq(p, RFind(p, "/") + 1, Len(p))

\* str.rstrip('/')
RECURSIVE RStripSlash(_)
RStripSlash(s) ==
    IF s # <<>> /\ s[Len(s)] = "/" THEN RStripSlash(SubSeq(s, 1, Len(s) - 1)) ELSE s

\* os.path.dirname(p) (posixpath): head = p[:p.rfind('/') + 1]; trailing
\* slashes are stripped from head unless head consists of slashes only.
Dirname(p) ==
    LET head == SubSeq(p, 1, RFind(p, "/"))
    IN  IF head # <<>> /\ (\E i \in 1..Len(head) : head[i] # "/")
        THEN RStripSlash(head)
        ELSE head

\* os.path.join(a, b) (posixpath, two arguments)
Join(a, b) ==
    IF b # <<>> /\ b[1] = "/" THEN b
    ELSE IF a = <<>> \/ a[Len(a)] = "/" THEN a \o b
    ELSE a \o <<"/">> \o b

\* list(map(lambda f: os.path.join(root, f), rel))
RECURSIVE JoinAll(_, _)
JoinAll(root, rel) ==
    IF rel = <<>> THEN <<>>
    ELSE <<Join(root, Head(rel))>> \o JoinAll(root, Tail(rel))

\* [item for sublist in lists for item in sublist]
RECURSIVE Flatten(_)
Flatten(lists) ==
    IF lists = <<>> THEN <<>> ELSE Head(lists) \o Flatten(Tail(lists))

\* x in list
InList(x, list) == \E i \in 1..Len(list) : list[i] = x

Range(list) == {list[i] : i \in 1..Len(list)}

(* -------------------------------- Helpers ------------------------------- *)

\* filename_normalize(path): the base name cut at its last '.', whole when
\* it has none.
filename_normalize(path) ==
    LET filename == Basename(path)
        dot      == RFind(filename, ".")
    IN  IF dot = 0 THEN filename ELSE SubSeq(filename, 1, dot - 1)

\* filename_extension(path): path[path.rfind('.'):]; with no '.' in the
\* whole path rfind is -1 and the slice is the last character.
filename_extension(path) ==
    LET dot == RFind(path, ".")
    IN  IF dot = 0
        THEN (IF path = <<>> THEN <<>> ELSE <<path[Len(path)]>>)
        ELSE SubSeq(path, dot, Len(path))


(* ------------------------------ Properties ------------------------------ *)

\* DependencyGraph.base_blacklist as the class body sets it: .git, .settings, .vscode
default_blacklist ==
    << <<".", "g", "i", "t">>,
       <<".", "s", "e", "t", "t", "i", "n", "g", "s">>,
       <<".", "v", "s", "c", "o", "d", "e">> >>

\* DependencyGraph.base_groups as the class body sets it
default_groups == <<>>

\* valid_headers = [['.h', '.hpp'], 'red']
valid_headers == [exts |-> <<<<".", "h">>, <<".", "h", "p", "p">>>>, color |-> "red"]

\* valid_sources = [['.c', '.cc', '.cpp'], 'blue']
valid_sources == [exts |-> <<<<".", "c">>, <<".", "c", "c">>, <<".", "c", "p", "p">>>>, color |-> "blue"]

\* valid_extensions = valid_headers[0] + valid_sources[0]
valid_extensions == valid_headers.exts \o valid_sources.exts

(* ------------------------------ The file tree --------------------------- *)
(* The project directory the tool is pointed at:                           *)
(*    r/m.c  r/lx.c                                                        *)
(*    r/l/x.hpp  r/l/s/z.cpp  r/l/s/n.txt                                  *)
(*    r/b/g.cc  r/b/d.h/m.h  r/b/d.h/group - l.c                           *)
(* A file's content is the list of the targets its #include lines capture  *)
(* (find_neighbors, findall).                                              *)

Root == <<"r">>

D_l   == Join(Root, <<"l">>)
D_ls  == Join(D_l, <<"s">>)
D_b   == Join(Root, <<"b">>)
D_bd  == Join(D_b, <<"d", ".", "h">>)

F_m    == Join(Root, <<"m", ".", "c">>)
F_lx   == Join(Root, <<"l", "x", ".", "c">>)
F_lx_h == Join(D_l, <<"x", ".", "h", "p", "p">>)
F_lsz  == Join(D_ls, <<"z", ".", "c", "p", "p">>)
F_lsn  == Join(D_ls, <<"n", ".", "t", "x", "t">>)
F_bg   == Join(D_b, <<"g", ".", "c", "c">>)
F_bdm  == Join(D_bd, <<"m", ".", "h">>)
F_bdgl == Join(D_bd, <<"g", "r", "o", "u", "p", " ", "-", " ", "l", ".", "c">>)

Directories == {Root, D_l, D_ls, D_b, D_bd}

\* The files that exist below Root
Tree == {F_m, F_lx, F_lx_h, F_lsz, F_lsn, F_bg, F_bdm, F_bdgl}

\* The names of the entries of each directory
DirEntries(path) ==
    CASE path = Root  -> {<<"m", ".", "c">>, <<"l", "x", ".", "c">>, <<"l">>, <<"b">>}
      [] path = D_l   -> {<<"x", ".", "h", "p", "p">>, <<"s">>}
      [] path = D_ls  -> {<<"z", ".", "c", "p", "p">>, <<"n", ".", "t", "x", "t">>}
      [] path = D_b   -> {<<"g", ".", "c", "c">>, <<"d", ".", "h">>}
      [] path = D_bd  -> {<<"m", ".", "h">>, <<"g", "r", "o", "u", "p", " ", "-", " ", "l", ".", "c">>}
      [] OTHER        -> {}

\* The targets captured from the #include lines of each file, in file order.
Includes(path) ==
    CASE path = F_m    -> <<<<"x", ".", "h", "p", "p">>, <<"b", "/", "g", ".", "h">>, <<"z", ".", "h">>, <<"m", ".", "h">>, <<"s", "t", "d", "i", "o", ".", "h">>,
                            <<"g", "r", "o", "u", "p", " ", "-", " ", "s", ".", "h">>, <<"h", ".", "h">>, <<"x", ".", "h", "p", "p">>>>
      [] path = F_lx   -> <<<<"x", ".", "h", "p", "p">>, <<"l", "x", ".", "h">>>>
      [] path = F_lx_h -> <<<<"z", ".", "h">>, <<"m", ".", "h">>, <<"x", ".", "h">>>>
      [] path = F_lsz  -> <<<<"x", ".", "h", "p", "p">>, <<"g", ".", "h">>>>
      [] path = F_bg   -> <<<<"x", ".", "h", "p", "p">>>>
      [] path = F_bdm  -> <<<<"m", ".", "c">>, <<"g", ".", "h">>>>
      [] path = F_bdgl -> <<<<"x", ".", "h", "p", "p">>, <<"s", "t", "r", "i", "n", "g", ".", "h">>>>
      [] OTHER         -> <<>>

\* Every order in which the elements of a set can be listed
RECURSIVE Orders(_)
Orders(set) ==
    IF set = {} THEN {<<>>}
    ELSE UNION {{<<x>> \o rest : rest \in Orders(set \ {x})} : x \in set}

VARIABLES
    order,           \* for each directory, the order in which it yields its entries
    base_blacklist,  \* the class attribute DependencyGraph.base_blacklist
    base_groups,     \* the class attribute DependencyGraph.base_groups
    dg,              \* the DependencyGraph object in use: _root, blacklist, groups
    runs             \* what the run() calls so far were given and produced, oldest first

vars == <<order, base_blacklist, base_groups, dg, runs>>

\* The number of run() calls followed in one behaviour.
MaxRuns == 2

(* -------------------------------- Scanner ------------------------------- *)

\* entry.is_dir()
IsDir(path) == path \in Directories

\* os.scandir(path): the entries as entry.path = join(path, name).  The order
\* is arbitrary: whichever the file system has for this directory, the same
\* at every scan of the unchanged tree.
scandir(path) ==
    [k \in 1..Len(order[path]) |-> Join(path, order[path][k])]

\* Descend with the blacklist test left out
Descend_always(self, path) == TRUE

\* The test of line 122: the directory is descended into
Descend(self, path) == ~InList(path, self.blacklist)

\* find_files that does not descend into directories
find_files_flat(self, path) ==
    SelectSeq(scandir(path),
              LAMBDA entry : ~IsDir(entry)
                             /\ InList(filename_extension(entry), valid_extensions))

\* find_files(self, path) with recursive = True, as every call has it
RECURSIVE find_files(_, _)
find_files(self, path) ==
    LET RECURSIVE Loop(_)
        Loop(entries) ==
            IF entries = <<>> THEN <<>>
            ELSE LET entry == Head(entries)
                 IN  (IF IsDir(entry)
                      THEN (IF Descend(self, entry) THEN find_files(self, entry) ELSE <<>>)
                      ELSE IF InList(filename_extension(entry), valid_extensions)
                           THEN <<entry>>
                           ELSE <<>>)
                     \o Loop(Tail(entries))
    IN  Loop(scandir(path))

\* find_neighbors(self, path): the captured targets, each normalized
find_neighbors(path) ==
    LET inc == Includes(path)
    IN  [i \in 1..Len(inc) |-> filename_normalize(inc[i])]


(* ----------------------------- Graph builder ---------------------------- *)
(* A Digraph is its strict flag and its body, the statements in the order  *)
(* they were written.  graph.node(name, ...) writes a node statement,      *)
(* graph.edge(tail_name, head_name, ...) an edge statement from tail to    *)
(* head.  Two fields are bookkeeping of the model and not part of the      *)
(* Digraph: by (the path being processed when the statement was written)   *)
(* and inc (the neighbor an edge was written for).                         *)

None == <<>>

NodeStmt(name, color, path) ==
    [kind |-> "node", tail |-> name, head |-> None, color |-> color,
     dir |-> "", by |-> path, inc |-> None]

\* graph.edge with its two names the other way round
EdgeStmt_swapped(tail, head, color, path, neighbor) ==
    [kind |-> "edge", tail |-> head, head |-> tail, color |-> color,
     dir |-> "back", by |-> path, inc |-> neighbor]

\* graph.edge(tail, head, dir="back", color=color)
EdgeStmt(tail, head, color, path, neighbor) ==
    [kind |-> "edge", tail |-> tail, head |-> head, color |-> color,
     dir |-> "back", by |-> path, inc |-> neighbor]

\* f"group - {filename_normalize(group)}"
group_name(group) ==
    <<"g", "r", "o", "u", "p", " ", "-", " ">> \o filename_normalize(group)

\* The loop of lines 159-165 with a break after the first match
MatchingGroups_first(self, path) ==
    LET all == SelectSeq(self.groups, LAMBDA group : StartsWith(path, group))
    IN  IF all = <<>> THEN <<>> ELSE <<all[1]>>

\* The group rules the loop of lines 159-165 acts on for path: every rule
\* that is a prefix of path, in configuration order (the loop has no break).
MatchingGroups(self, path) ==
    SelectSeq(self.groups, LAMBDA group : StartsWith(path, group))

\* proxy_nodes[key] = value
DictPut(dict, key, value) ==
    [k \in DOMAIN dict \cup {key} |-> IF k = key THEN value ELSE dict[k]]

\* folder_to_files[folder].append(path): the keys in insertion order
FolderPut(folders, folder) ==
    IF InList(folder, folders) THEN folders ELSE Append(folders, folder)

\* Lines 158-168 for one path: st is [nodes, proxy_nodes, folders, body]
FindNode(self, st, path) ==
    LET RECURSIVE Loop(_, _)
        Loop(acc, groups) ==
            IF groups = <<>> THEN acc
            ELSE LET name == group_name(Head(groups))
                 IN  Loop([acc EXCEPT
                             !.nodes = @ \cup {name},
                             !.body = Append(@, NodeStmt(name, "lightgreen", path)),
                             !.proxy_nodes = DictPut(@, filename_normalize(path), name)],
                          Tail(groups))
        matching == MatchingGroups(self, path)
        st1      == [st EXCEPT !.folders = FolderPut(@, Dirname(path))]
        st2      == Loop(st1, matching)
    IN  IF matching = <<>>
        THEN [st2 EXCEPT !.nodes = @ \cup {filename_normalize(path)}]
        ELSE st2

\* Lines 155-168: the loop over files
RECURSIVE FindNodes(_, _, _)
FindNodes(self, st, files) ==
    IF files = <<>> THEN st
    ELSE FindNodes(self, FindNode(self, st, Head(files)), Tail(files))

\* Lines 173-176: the folder starts with some group rule
FolderInGroup(self, folder) ==
    \E i \in 1..Len(self.groups) : StartsWith(folder, self.groups[i])

\* Lines 180-186: the colour of the edges a file's includes get
EdgeColor(path) ==
    LET ext == filename_extension(path)
    IN  IF InList(ext, valid_sources.exts) THEN valid_sources.color
        ELSE IF InList(ext, valid_headers.exts) THEN valid_headers.color
        ELSE "black"

\* Lines 192-196 for one neighbor of the file path, whose node is node
NeighborEdges(st, path, node, neighbor) ==
    IF neighbor # node
    THEN IF neighbor \in st.nodes
         THEN <<EdgeStmt(node, neighbor, EdgeColor(path), path, neighbor)>>
         ELSE IF neighbor \in DOMAIN st.proxy_nodes
              THEN <<EdgeStmt(node, st.proxy_nodes[neighbor], EdgeColor(path), path, neighbor)>>
              ELSE <<>>
    ELSE <<>>

\* Lines 180-196 for one file of a folder that is in no group
FileEdges(st, path) ==
    LET node == filename_normalize(path)
        RECURSIVE Loop(_)
        Loop(neighbors) ==
            IF neighbors = <<>> THEN <<>>
            ELSE NeighborEdges(st, path, node, Head(neighbors)) \o Loop(Tail(neighbors))
    IN  <<NodeStmt(node, "", path)>> \o Loop(find_neighbors(path))

\* EdgeFiles with the test of line 178 left out
EdgeFiles_all(self, files, folder) ==
    SelectSeq(files, LAMBDA path : Dirname(path) = folder)

\* The files whose edges are extracted: those of the folders of line 178
EdgeFiles(self, files, folder) ==
    IF FolderInGroup(self, folder)
    THEN <<>>
    ELSE SelectSeq(files, LAMBDA path : Dirname(path) = folder)

\* Lines 171-196: the loop over folders, in the order they were first seen
FindEdges(self, st, files) ==
    LET RECURSIVE OverFiles(_)
        OverFiles(paths) ==
            IF paths = <<>> THEN <<>>
            ELSE FileEdges(st, Head(paths)) \o OverFiles(Tail(paths))
        RECURSIVE OverFolders(_)
        OverFolders(folders) ==
            IF folders = <<>> THEN <<>>
            ELSE OverFiles(EdgeFiles(self, files, Head(folders)))
                 \o OverFolders(Tail(folders))
    IN  OverFolders(st.folders)

\* create_graph(self, files, strict)
create_graph(self, files, strict) ==
    LET st0 == [nodes |-> {}, proxy_nodes |-> <<>>, folders |-> <<>>, body |-> <<>>]
        st  == FindNodes(self, st0, files)
    IN  [strict |-> strict, body |-> st.body \o FindEdges(self, st, files)]


(* ------------------------------ Lifecycle ------------------------------- *)

NoObject == [live |-> FALSE, root |-> None, blacklist |-> <<>>, groups |-> <<>>]

\* The args of the runs followed (-b and -g: action='append', nargs='+'):
\*   no option;  -s -g l;  -b b -g l l/s;  -b b/d.h -b d.h -g l/s -g l
Args ==
    { [blacklist |-> <<>>, group |-> <<>>, strict |-> FALSE],
      [blacklist |-> <<>>, group |-> << <<<<"l">>>> >>, strict |-> TRUE],
      [blacklist |-> << <<<<"b">>>> >>, group |-> << <<<<"l">>, <<"l", "/", "s">>>> >>, strict |-> FALSE],
      [blacklist |-> << <<<<"b", "/", "d", ".", "h">>>>, <<<<"d", ".", "h">>>> >>,
       group |-> << <<<<"l", "/", "s">>>>, <<<<"l">>>> >>, strict |-> FALSE] }

\* added_blacklist, line 202
AddedBlacklist(args) == Flatten(args.blacklist)

\* added_groups, line 207
AddedGroups(args) == Flatten(args.group)

\* self.blacklist computed before the class list is extended
RunBlacklist_stale(root, base, added) == JoinAll(root, base)

\* self.blacklist of line 204, from the class list as line 203 leaves it
RunBlacklist(root, base, added) == JoinAll(root, base \o added)

\* self.groups of line 209, from the class list as line 208 leaves it
RunGroups(root, base, added) == JoinAll(root, base \o added)

Init ==
    /\ \E o_r \in Orders(DirEntries(Root)), o_l \in Orders(DirEntries(D_l)),
          o_ls \in Orders(DirEntries(D_ls)), o_b \in Orders(DirEntries(D_b)),
          o_bd \in Orders(DirEntries(D_bd)) :
          order = [d \in Directories |->
                      CASE d = Root -> o_r
                        [] d = D_l  -> o_l
                        [] d = D_ls -> o_ls
                        [] d = D_b  -> o_b
                        [] OTHER    -> o_bd]
    /\ base_blacklist = default_blacklist
    /\ base_groups = default_groups
    /\ dg = NoObject
    /\ runs = <<>>

\* dg = DependencyGraph(root): __init__ of a new object, which takes the
\* place of the one in use
New ==
    /\ dg' = [live |-> TRUE, root |-> Root,
              blacklist |-> JoinAll(Root, base_blacklist),
              groups |-> JoinAll(Root, base_groups)]
    /\ UNCHANGED <<order, base_blacklist, base_groups, runs>>

\* dg.run(args), up to the graph handed to the renderer
Run(args) ==
    /\ dg.live
    /\ Len(runs) < MaxRuns
    /\ LET self  == [dg EXCEPT
                       !.blacklist = RunBlacklist(dg.root, base_blacklist,
                                                  AddedBlacklist(args)),
                       !.groups = RunGroups(dg.root, base_groups,
                                            AddedGroups(args))]
           files == find_files(self, self.root)
           graph == create_graph(self, files, args.strict)
       IN  /\ base_blacklist' = base_blacklist \o AddedBlacklist(args)
           /\ base_groups' = base_groups \o AddedGroups(args)
           /\ dg' = self
           /\ runs' = Append(runs, [args |-> args,
                                    blacklist |-> self.blacklist,
                                    groups |-> self.groups,
                                    files |-> files, graph |-> graph])
    /\ UNCHANGED order

Next ==
    \/ New
    \/ \E args \in Args : Run(args)

Spec == Init /\ [][Next]_vars


(* ======================= Properties of the builder ====================== *)

\* The run that has just ended.  Every run is the last one in the state it
\* leaves, so a property of the last run in every state is one of every run.
RunIds == IF runs = <<>> THEN {} ELSE {Len(runs)}

\* The group rules of run i that are a prefix of the path f, in their order
RulesOf(i, f) == SelectSeq(runs[i].groups, LAMBDA g : StartsWith(f, g))

Files(i) == Range(runs[i].files)

Stmts(i) == Range(runs[i].graph.body)

EdgeStmts(i) == {s \in Stmts(i) : s.kind = "edge"}

\* The node ids of a graph: the node statements and the edges' endpoints
GraphNodeIds(graph) ==
    {s.tail : s \in Range(graph.body)}
    \cup {s.head : s \in {e \in Range(graph.body) : e.kind = "edge"}}

\* The edges of a graph as an unordered set
GraphEdgeSet(graph) ==
    {<<s.tail, s.head, s.color, s.dir>> : s \in {e \in Range(graph.body) : e.kind = "edge"}}

NodeIds(i) == GraphNodeIds(runs[i].graph)

EdgeSet(i) == GraphEdgeSet(runs[i].graph)

\* The proxy ids of the group rules that match the file f in run i
GroupIdsOf(i, f) == {group_name(g) : g \in Range(RulesOf(i, f))}

\* f lies below the directory d, at any depth
Below(d, f) == StartsWith(f, d \o <<"/">>)

(* ---- C1: no self-edge ---- *)

\* C1: no graph returned by create_graph has an edge whose two endpoints are
\* the same node id, edges to a group proxy node included.
C1_NoSelfEdge ==
    \A i \in RunIds : \A s \in EdgeStmts(i) : s.tail # s.head

(* ---- C2: blacklist exclusion ---- *)

\* The directories run i was asked to leave out: the defaults and its -b entries
BlacklistedDirs(i) ==
    {d \in Range(JoinAll(Root, default_blacklist \o AddedBlacklist(runs[i].args))) :
        IsDir(d)}

BlacklistedFiles(i) == {f \in Tree : \E d \in BlacklistedDirs(i) : Below(d, f)}

\* C2: after run() with a blacklist, a file below a blacklisted directory (at
\* any depth) is not discovered, no statement of the graph is written for it,
\* and its base name is a node id of the graph (a node or an edge endpoint)
\* only as the id of a discovered file or of a discovered file's group.
C2_BlacklistExclusion ==
    \A i \in RunIds : \A f \in BlacklistedFiles(i) :
        /\ f \notin Files(i)
        /\ \A s \in Stmts(i) : s.by # f
        /\ filename_normalize(f) \in NodeIds(i) =>
              \E g \in Files(i) :
                  \/ filename_normalize(g) = filename_normalize(f)
                  \/ filename_normalize(f) \in GroupIdsOf(i, g)

\* r/b is blacklisted by -b b; r/b/g.cc is included by the discovered r/m.c and
\* r/b/d.h/m.h shares its base name with it
C2_Witness ==
    \E i \in RunIds :
        /\ AddedBlacklist(runs[i].args) # <<>>
        /\ {F_bg, F_bdm} \subseteq BlacklistedFiles(i)
        /\ F_m \in Files(i)
        /\ InList(filename_normalize(F_bg), find_neighbors(F_m))
        /\ filename_normalize(F_bg) \notin NodeIds(i)
        /\ filename_normalize(F_bdm) \in NodeIds(i)

(* ---- C8: the scanner's result ---- *)

\* The directories on the way from Root down to f, Root itself left out
AncestorDirs(f) ==
    {SubSeq(f, 1, k - 1) : k \in {k \in 1..Len(f) : f[k] = "/"}} \ {Root}

\* The file's name ends in one of .h .hpp .c .cc .cpp
HasValidExtension(f) ==
    LET name == Basename(f)
    IN  \E k \in 1..Len(name) :
            /\ name[k] = "."
            /\ \A j \in (k + 1)..Len(name) : name[j] # "."
            /\ SubSeq(name, k, Len(name)) \in Range(valid_extensions)

\* C8: find_files(root) returns, each once, exactly the files below root with
\* a whitelisted extension none of whose ancestor directories below root is a
\* blacklist entry, and never a directory.
C8_ScannerResult ==
    \A i \in RunIds :
        /\ Files(i) = {f \in Tree : /\ HasValidExtension(f)
                                    /\ AncestorDirs(f) \cap Range(runs[i].blacklist) = {}}
        /\ Cardinality(Files(i)) = Len(runs[i].files)
        /\ Files(i) \cap Directories = {}

\* r/b/d.h (a directory named like a header) is blacklisted and skipped with
\* r/b/d.h/m.h, while r/b/g.cc beside it and r/l/s/z.cpp two levels down are
\* found and r/l/s/n.txt beside that is not
C8_Witness ==
    \E i \in RunIds :
        /\ D_bd \in Range(runs[i].blacklist)
        /\ D_b \notin Range(runs[i].blacklist)
        /\ F_bdm \in Tree /\ F_bdm \notin Files(i)
        /\ {F_bg, F_lsz} \subseteq Files(i)
        /\ F_lsn \in Tree /\ F_lsn \notin Files(i)


(* ---- C3: group collapsing ---- *)

\* C3: a discovered file whose path starts with a group rule never becomes
\* its own node: the proxy of its group is in the graph and every node
\* statement written for the file is a group proxy, not its base name.
C3_GroupedFileHasNoNode ==
    \A i \in RunIds : \A f \in Files(i) :
        RulesOf(i, f) # <<>> =>
            /\ GroupIdsOf(i, f) \subseteq NodeIds(i)
            /\ \A s \in Stmts(i) :
                   (s.kind = "node" /\ s.by = f) => s.tail \in GroupIdsOf(i, f)

(* ---- C4: group opacity ---- *)

\* The directory is covered by a group rule of run i
Covered(i, folder) == \E g \in Range(runs[i].groups) : StartsWith(folder, g)

\* C4: no edge is extracted from a file of a directory covered by a group
\* rule: the includer of every edge lies in a directory no rule covers, so no
\* edge links two files of the same grouped directory.
C4_GroupOpacity ==
    \A i \in RunIds : \A s \in EdgeStmts(i) : ~Covered(i, Dirname(s.by))

\* r/l is grouped; r/l/x.hpp includes m.h, which names the node of r/m.c, and
\* z.h, the name of r/l/s/z.cpp below it; the edges of r/m.c reach the proxy
C4_Witness ==
    \E i \in RunIds :
        /\ {F_lx_h, F_lsz} \subseteq Files(i)
        /\ Covered(i, Dirname(F_lx_h))
        /\ InList(filename_normalize(F_m), find_neighbors(F_lx_h))
        /\ InList(filename_normalize(F_lsz), find_neighbors(F_lx_h))
        /\ filename_normalize(F_m) \in NodeIds(i)
        /\ \E s \in EdgeStmts(i) : s.head = group_name(D_l) /\ s.by = F_m

(* ---- C5: edge direction ---- *)

\* The node that the neighbor inc of an edge resolves to in run i
IsTargetNode(i, inc, id) ==
    \/ id = inc
    \/ \E f \in Files(i) : filename_normalize(f) = inc /\ id \in GroupIdsOf(i, f)

\* C5 as claimed: every edge is the ordered pair (target's node, includer's
\* node), marked for reversed display.
C5_TargetFirst ==
    \A i \in RunIds : \A s \in EdgeStmts(i) :
        /\ IsTargetNode(i, s.inc, s.tail)
        /\ s.head = filename_normalize(s.by)
        /\ s.dir = "back"

\* C5 as the code has it: every edge is written for an include of the file
\* s.by, its tail is the includer's node, its head the node the included name
\* resolves to, and it is marked dir = "back".
C5_IncluderFirst ==
    \A i \in RunIds : \A s \in EdgeStmts(i) :
        /\ InList(s.inc, find_neighbors(s.by))
        /\ s.tail = filename_normalize(s.by)
        /\ IsTargetNode(i, s.inc, s.head)
        /\ s.dir = "back"

\* r/m.c includes b/g.h and x.hpp: an edge (m, g) to the node of r/b/g.cc and,
\* r/l being grouped, an edge (m, group - l) for r/l/x.hpp
C5_Witness ==
    \E i \in RunIds :
        /\ \E s \in EdgeStmts(i) :
              /\ s.by = F_m /\ s.inc = filename_normalize(F_bg)
              /\ s.tail = filename_normalize(F_m) /\ s.head = filename_normalize(F_bg)
        /\ \E s \in EdgeStmts(i) :
              /\ s.by = F_m /\ s.inc = filename_normalize(F_lx_h)
              /\ s.tail = filename_normalize(F_m) /\ s.head = group_name(D_l)

(* ---- C6: unresolved includes ---- *)

\* C6: every edge is written for an included name that is the base name of a
\* discovered file, and ends at that file's node or group proxy.
C6_ResolvedOnly ==
    \A i \in RunIds : \A s \in EdgeStmts(i) :
        \E f \in Files(i) :
            /\ filename_normalize(f) = s.inc
            /\ (s.head = s.inc \/ s.head \in GroupIdsOf(i, f))

(* ---- C7: idempotence ---- *)

\* C7: a run that follows a run with the same arguments, on the unchanged
\* tree, finds the same files and yields the same node set and edge set.
C7_Idempotent ==
    \A j \in RunIds : \A i \in {j - 1} \cap DOMAIN runs :
        (runs[i].args = runs[j].args) =>
            /\ Files(i) = Files(j)
            /\ NodeIds(i) = NodeIds(j)
            /\ EdgeSet(i) = EdgeSet(j)

\* Two runs in a row with the same -b and -g entries, which the class lists
\* then hold twice, and a graph with group nodes and edges
C7_Witness ==
    \E j \in RunIds : \E i \in {j - 1} \cap DOMAIN runs :
        /\ runs[i].args = runs[j].args
        /\ AddedBlacklist(runs[j].args) # <<>>
        /\ Len(AddedGroups(runs[j].args)) = 2
        /\ Len(runs[j].groups) > Len(runs[i].groups)
        /\ EdgeSet(j) # {}
        /\ \E f \in Files(j) : Len(RulesOf(j, f)) > 2

(* ---- C9: overlapping group rules ---- *)

\* f is the only discovered file of its base name that some rule matches
OnlyGrouped(i, f) ==
    \A g \in Files(i) :
        (filename_normalize(g) = filename_normalize(f)
           /\ RulesOf(i, g) # <<>>) => g = f

\* The group node statements written for the file f
GroupStmts(i, f) ==
    {s \in Stmts(i) : s.kind = "node" /\ s.by = f /\ s.color = "lightgreen"}

\* C9 as claimed: of the rules that match a file only the first counts: only
\* its proxy node is added for the file, and an include of the file's base
\* name that resolves to a proxy resolves to the first rule's.
C9_FirstMatchWins ==
    \A i \in RunIds : \A f \in Files(i) :
        LET matching == RulesOf(i, f)
        IN  matching # <<>> =>
               /\ \A s \in GroupStmts(i, f) : s.tail = group_name(matching[1])
               /\ \A s \in EdgeStmts(i) :
                      (s.inc = filename_normalize(f) /\ s.head # s.inc /\ OnlyGrouped(i, f))
                         => s.head = group_name(matching[1])

\* C9 as the code has it: the proxy node of every matching rule is added for
\* the file, and an include of the file's base name that resolves to a proxy
\* resolves to the proxy of the last matching rule.
C9_LastMatchWins ==
    \A i \in RunIds : \A f \in Files(i) :
        LET matching == RulesOf(i, f)
        IN  matching # <<>> =>
               /\ {s.tail : s \in GroupStmts(i, f)} = GroupIdsOf(i, f)
               /\ \A s \in EdgeStmts(i) :
                      (s.inc = filename_normalize(f) /\ s.head # s.inc /\ OnlyGrouped(i, f))
                         => s.head = group_name(matching[Len(matching)])

\* r/l/s/z.cpp matches the rules r/l and r/l/s, in either order, and r/m.c
\* includes z.h: the edge ends at the proxy of whichever rule is last
C9_Witness ==
    \E i \in RunIds :
        LET matching == RulesOf(i, F_lsz)
        IN  /\ F_lsz \in Files(i)
            /\ Len(matching) = 2
            /\ group_name(matching[1]) # group_name(matching[2])
            /\ OnlyGrouped(i, F_lsz)
            /\ \E s \in EdgeStmts(i) :
                  /\ s.by = F_m /\ s.inc = filename_normalize(F_lsz)
                  /\ s.head = group_name(matching[2])

(* ---- C10: no state carried between runs ---- *)

\* The object a run would use if only the defaults and its own args counted
Fresh(args) ==
    [live |-> TRUE, root |-> Root,
     blacklist |-> JoinAll(Root, default_blacklist \o AddedBlacklist(args)),
     groups |-> JoinAll(Root, default_groups \o AddedGroups(args))]

\* C10: the blacklist and the group rules in effect in a run are the defaults
\* plus the entries of that run's args, and so are the files discovered, the
\* nodes and the edges, whatever earlier runs were given.
C10_NoCarryOver ==
    \A i \in RunIds :
        LET fresh == Fresh(runs[i].args)
            files == find_files(fresh, Root)
            graph == create_graph(fresh, files, runs[i].args.strict)
        IN  /\ Range(runs[i].blacklist) = Range(fresh.blacklist)
            /\ Range(runs[i].groups) = Range(fresh.groups)
            /\ Files(i) = Range(files)
            /\ NodeIds(i) = GraphNodeIds(graph)
            /\ EdgeSet(i) = GraphEdgeSet(graph)

====
